---- MODULE Spec2Model ----
(***************************************************************************)
(* Qt Speech text-to-speech engines: the mock engine                       *)
(* (src/plugins/tts/mock/qtexttospeech_mock.cpp) and the SAPI engine       *)
(* (src/plugins/tts/sapi/qtexttospeech_sapi.cpp) as state machines.        *)
(*                                                                         *)
(* Text is a sequence of one-character strings.  Doubles are modelled in   *)
(* tenths (volume 0.5 is 5).  Indices into text are 0-based as in QString. *)
(***************************************************************************)
EXTENDS Integers, Sequences, FiniteSets, TLC

(* ------------------------------ bounds -------------------------------- *)

\* longest text passed to say()
MaxLen == 3

(* --------------------------- value domains ---------------------------- *)

\* characters matched by \w, and characters matched by \W
WordChars == {"a"}
SepChars == {","}
Chars == WordChars \cup SepChars

RECURSIVE SeqsUpTo(_, _)
SeqsUpTo(S, n) ==
    IF n = 0 THEN {<<>>}
    ELSE LET shorter == SeqsUpTo(S, n - 1)
         IN  shorter \cup {Append(s, c) : s \in shorter, c \in S}

\* the texts a client passes to say()
Texts == SeqsUpTo(Chars, MaxLen)

\* doubles a client passes, in tenths
VolumeInputs == {-1, 0, 5, 10, 11}
RateInputs == {0, 5}
PitchInputs == {0, 5}

\* QLocale values: language and territory
Loc(l, t) == [language |-> l, territory |-> t]
enGB == Loc("English", "UnitedKingdom")
nbNO == Loc("NorwegianBokmal", "Norway")
fiFI == Loc("Finnish", "Finland")
enUS == Loc("English", "UnitedStates")
deDE == Loc("German", "Germany")
cLocale == Loc("C", "AnyTerritory")
LocaleInputs == {enGB, nbNO, fiFI, enUS, deDE}

\* QLocale::bcp47Name(): the dash-separated parts of the name; the
\* territory is left out where it is the language's default
bcp47Name(l) ==
    CASE l = enGB -> <<"en", "GB">>
      [] l = nbNO -> <<"nb">>
      [] l = fiFI -> <<"fi">>
      [] l = enUS -> <<"en">>
      [] l = deDE -> <<"de">>
      [] OTHER -> <<"en">>

\* QLocale(const QString &): a name that is no locale's gives the C locale
LocaleFromName(parts) ==
    CASE parts = <<"en", "GB">> -> enGB
      [] parts = <<"en">> -> enUS
      [] parts = <<"en", "US">> -> enUS
      [] parts = <<"nb">> -> nbNO
      [] parts = <<"nb", "NO">> -> nbNO
      [] parts = <<"fi">> -> fiFI
      [] parts = <<"fi", "FI">> -> fiFI
      [] parts = <<"de">> -> deDE
      [] parts = <<"de", "DE">> -> deDE
      [] OTHER -> cLocale

\* QTextToSpeechEngine::createVoice: a QVoice is the full tuple, and
\* QVoice equality compares all of it
createVoice(name, locale, gender, age, data) ==
    [name |-> name, locale |-> locale, gender |-> gender, age |-> age,
     data |-> data]

\* a default-constructed QVoice
NullVoice == createVoice("", cLocale, "Unknown", "Other", <<>>)

(* ------------------------------ state --------------------------------- *)

VARIABLES
    \* QTextToSpeechEngineMock members
    m_state, m_text, m_currentIndex, m_timer, m_pauseRequested,
    m_rate, m_pitch, m_volume, m_locale, m_voice, m_errorReason,
    \* observation of the mock engine: the last call, its return value and
    \* the signals it emitted, in order; whether a Q_ASSERT has failed
    call, ret, emitted, assertFailed,
    \* history: the sayingWord signals emitted since the last say()
    words,
    \* history: stop() was called and say() not since
    stopped,
    \* history: say() was called in Ready and stop/pause/say not since
    undisturbed,
    \* history: sayingWord signals since the last pause() made in Speaking
    wordsSincePause,
    \* QTextToSpeechEngineSapi members; created tells whether m_voice, the
    \* ISpVoice, is there
    s_created, s_state, s_errorReason, s_pauseRequested, s_pitch,
    s_voices, currentText, textOffset,
    \* the ISpVoice behind m_voice: volume (0..100), rate, selected voice
    \* token, count of Pause() calls not yet matched by Resume(), the
    \* streams queued by Speak() (the first being spoken), whether and how
    \* far the first has been spoken, the events not yet fetched and the
    \* notifications not yet delivered
    n_volume, n_rate, n_voice, n_pauseCount, n_streams, n_started, n_word,
    n_events, n_pending,
    \* history: Resume() was called with no Pause() outstanding
    resumeUnmatched

playVars == <<m_state, m_text, m_currentIndex, m_timer, m_pauseRequested>>
confVars == <<m_rate, m_pitch, m_volume, m_locale, m_voice, m_errorReason>>
histVars == <<words, stopped, undisturbed, wordsSincePause>>
mockVars == <<playVars, confVars>>
mockAll == <<mockVars, assertFailed, histVars>>
sapiEngineVars == <<s_created, s_state, s_errorReason, s_pauseRequested, s_pitch,
                    s_voices, currentText, textOffset>>
nativeVars == <<n_volume, n_rate, n_voice, n_pauseCount, n_streams, n_started,
                n_word, n_events, n_pending>>
sapiHist == <<resumeUnmatched>>
sapiVars == <<sapiEngineVars, nativeVars, sapiHist>>
vars == <<mockAll, call, ret, emitted, sapiVars>>

\* a call and its argument: a text, a number (in tenths), a locale or a voice
Call(op, text, num, locale, voice) ==
    [engine |-> "mock", op |-> op, text |-> text, num |-> num, locale |-> locale,
     voice |-> voice]
CallOp(op) == Call(op, <<>>, 0, cLocale, NullVoice)
CallText(op, text) == Call(op, text, 0, cLocale, NullVoice)
CallNum(op, num) == Call(op, <<>>, num, cLocale, NullVoice)
CallLocale(op, locale) == Call(op, <<>>, 0, locale, NullVoice)
CallVoice(op, voice) == Call(op, <<>>, 0, cLocale, voice)
\* the same call, made on the SAPI engine
OnSapi(c) == [c EXCEPT !.engine = "sapi"]

\* what a call returned
Void == "void"
True == "true"
False == "false"

\* the signals
StateEv(s) == [ev |-> "stateChanged", state |-> s]
WordEv(start, length) == [ev |-> "sayingWord", start |-> start, length |-> length]

\* cap of the wordsSincePause history counter
CountCap == 2
Bump(n) == IF n < CountCap THEN n + 1 ELSE n

(* --------------------------- voice catalog ---------------------------- *)

availableLocales == <<enGB, nbNO, fiFI>>

Contains(list, x) == \E i \in 1..Len(list) : list[i] = x

\* availableVoices() for the locale m_locale holds; the second component
\* tells whether the Q_ASSERT_X of the default branch fails
VoicesOf(locale) ==
    LET voiceData == bcp47Name(locale)
    IN  CASE locale.language = "English" ->
               <<createVoice("Bob", locale, "Male", "Adult", Append(voiceData, "1")),
                 createVoice("Anne", locale, "Female", "Adult", Append(voiceData, "2"))>>
          [] locale.language = "NorwegianBokmal" ->
               <<createVoice("Eivind", locale, "Male", "Adult", Append(voiceData, "1")),
                 createVoice("Kjersti", locale, "Female", "Adult", Append(voiceData, "2"))>>
          [] locale.language = "Finnish" ->
               <<createVoice("Kari", locale, "Male", "Adult", Append(voiceData, "1")),
                 createVoice("Anneli", locale, "Female", "Adult", Append(voiceData, "2"))>>
          [] OTHER -> <<>>

availableVoices == VoicesOf(m_locale)

(* ------------------------- word-boundary step ------------------------- *)

IsNonWord(c) == c \notin WordChars

\* QString::indexOf(QRegularExpression("\\W+"), from): the 0-based index
\* of the first non-word character at or after from, or -1
IndexOfNonWord(text, from) ==
    LET start == IF from < 0 THEN (IF Len(text) + from < 0 THEN 0 ELSE Len(text) + from)
                 ELSE from
        hits == {i \in start..(Len(text) - 1) : IsNonWord(text[i + 1])}
    IN  IF hits = {} THEN -1
        ELSE CHOOSE i \in hits : \A j \in hits : i <= j

\* match.captured().length(): the greedy run of non-word characters that
\* starts at index at; an invalid match (at = -1) captures nothing
CapturedLength(text, at) ==
    IF at = -1 THEN 0
    ELSE LET ends == {e \in at..(Len(text) - 1) :
                         \A k \in at..e : IsNonWord(text[k + 1])}
         IN  Cardinality(ends)

\* nextSpace of timerEvent
NextSpace(text, from) ==
    LET found == IndexOfNonWord(text, from)
    IN  IF found = -1 THEN Len(text) ELSE found

\* m_currentIndex after the word step of timerEvent
NextIndex(text, from) ==
    NextSpace(text, from) + CapturedLength(text, IndexOfNonWord(text, from))

(* ------------------------------- Init --------------------------------- *)

MockInit ==
    /\ m_locale = availableLocales[1]
    /\ m_voice = VoicesOf(availableLocales[1])[1]
    /\ m_state = "Ready"
    /\ m_errorReason = "NoError"
    \* members the constructor leaves to their default initialisers
    /\ m_text = <<>>
    /\ m_currentIndex = -1
    /\ m_timer = FALSE
    /\ m_pauseRequested = FALSE
    /\ m_rate = 0
    /\ m_pitch = 0
    /\ m_volume = 5
    /\ call = CallOp("ctor")
    /\ ret = Void
    /\ emitted = <<>>
    /\ assertFailed = FALSE
    /\ words = <<>>
    /\ stopped = FALSE
    /\ undisturbed = FALSE
    /\ wordsSincePause = 0

(* ------------------------ playback operations ------------------------- *)

say(text) ==
    /\ m_text' = text
    /\ m_currentIndex' = 0
    /\ m_timer' = TRUE
    /\ m_state' = "Speaking"
    /\ emitted' = <<StateEv("Speaking")>>
    /\ call' = CallText("say", text)
    /\ ret' = Void
    /\ words' = <<>>
    /\ stopped' = FALSE
    /\ undisturbed' = (m_state = "Ready")
    /\ UNCHANGED <<m_pauseRequested, confVars, assertFailed, wordsSincePause>>
    /\ UNCHANGED sapiVars

\* stop() that forgets m_timer.stop()
stopLeavesTimer ==
    /\ call' = CallOp("stop")
    /\ ret' = Void
    /\ stopped' = TRUE
    /\ undisturbed' = FALSE
    /\ IF m_state = "Ready" \/ m_state = "Error"
       THEN /\ emitted' = <<>>
            /\ UNCHANGED <<playVars, assertFailed>>
       ELSE /\ m_text' = <<>>
            /\ m_currentIndex' = -1
            /\ m_state' = "Ready"
            /\ emitted' = <<StateEv("Ready")>>
            /\ UNCHANGED <<m_timer, m_pauseRequested, assertFailed>>
    /\ UNCHANGED <<confVars, words, wordsSincePause>>
    /\ UNCHANGED sapiVars

stop ==
    /\ call' = CallOp("stop")
    /\ ret' = Void
    /\ stopped' = TRUE
    /\ undisturbed' = FALSE
    /\ IF m_state = "Ready" \/ m_state = "Error"
       THEN /\ emitted' = <<>>
            /\ UNCHANGED <<playVars, assertFailed>>
       ELSE /\ assertFailed' = (assertFailed \/ ~(m_state = "Paused" \/ m_timer))
            /\ m_text' = <<>>
            /\ m_currentIndex' = -1
            /\ m_timer' = FALSE
            /\ m_state' = "Ready"
            /\ emitted' = <<StateEv("Ready")>>
            /\ UNCHANGED m_pauseRequested
    /\ UNCHANGED <<confVars, words, wordsSincePause>>
    /\ UNCHANGED sapiVars

\* pause() that pauses at once instead of after the word
pauseAtOnce ==
    /\ call' = CallOp("pause")
    /\ ret' = Void
    /\ undisturbed' = FALSE
    /\ IF m_state # "Speaking"
       THEN /\ emitted' = <<>>
            /\ UNCHANGED <<m_state, m_timer, wordsSincePause>>
       ELSE /\ m_state' = "Paused"
            /\ m_timer' = FALSE
            /\ emitted' = <<StateEv("Paused")>>
            /\ wordsSincePause' = 0
    /\ UNCHANGED <<m_text, m_currentIndex, m_pauseRequested, confVars,
                   assertFailed, words, stopped>>
    /\ UNCHANGED sapiVars

\* pause() without its test of the state
pauseInAnyState ==
    /\ call' = CallOp("pause")
    /\ ret' = Void
    /\ emitted' = <<>>
    /\ undisturbed' = FALSE
    /\ m_pauseRequested' = TRUE
    /\ wordsSincePause' = 0
    /\ UNCHANGED <<m_state, m_text, m_currentIndex, m_timer, confVars,
                   assertFailed, words, stopped>>
    /\ UNCHANGED sapiVars

pause ==
    /\ call' = CallOp("pause")
    /\ ret' = Void
    /\ emitted' = <<>>
    /\ undisturbed' = FALSE
    /\ IF m_state # "Speaking"
       THEN UNCHANGED <<m_pauseRequested, wordsSincePause>>
       ELSE /\ m_pauseRequested' = TRUE
            /\ wordsSincePause' = 0
    /\ UNCHANGED <<m_state, m_text, m_currentIndex, m_timer, confVars,
                   assertFailed, words, stopped>>
    /\ UNCHANGED sapiVars

\* resume() that starts the text over
resumeFromStart ==
    /\ call' = CallOp("resume")
    /\ ret' = Void
    /\ IF m_state # "Paused"
       THEN /\ emitted' = <<>>
            /\ UNCHANGED <<m_state, m_timer, m_currentIndex>>
       ELSE /\ m_timer' = TRUE
            /\ m_state' = "Speaking"
            /\ m_currentIndex' = 0
            /\ emitted' = <<StateEv("Speaking")>>
    /\ UNCHANGED <<m_text, m_pauseRequested, confVars, assertFailed, histVars>>
    /\ UNCHANGED sapiVars

\* resume() that forgets to start the timer
resumeWithoutTimer ==
    /\ call' = CallOp("resume")
    /\ ret' = Void
    /\ IF m_state # "Paused"
       THEN /\ emitted' = <<>>
            /\ UNCHANGED m_state
       ELSE /\ m_state' = "Speaking"
            /\ emitted' = <<StateEv("Speaking")>>
    /\ UNCHANGED <<m_text, m_currentIndex, m_timer, m_pauseRequested, confVars,
                   assertFailed, histVars>>
    /\ UNCHANGED sapiVars

resume ==
    /\ call' = CallOp("resume")
    /\ ret' = Void
    /\ IF m_state # "Paused"
       THEN /\ emitted' = <<>>
            /\ UNCHANGED <<m_state, m_timer>>
       ELSE /\ m_timer' = TRUE
            /\ m_state' = "Speaking"
            /\ emitted' = <<StateEv("Speaking")>>
    /\ UNCHANGED <<m_text, m_currentIndex, m_pauseRequested, confVars,
                   assertFailed, histVars>>
    /\ UNCHANGED sapiVars

\* timerEvent() whose separator pattern is \W instead of \W+: one
\* separator character is skipped after a word
timerEventOneSeparator ==
    /\ m_timer
    /\ LET nextSpace == NextSpace(m_text, m_currentIndex)
           word == WordEv(m_currentIndex, nextSpace - m_currentIndex)
           index == IF nextSpace < Len(m_text) THEN nextSpace + 1 ELSE nextSpace
       IN  /\ assertFailed' = (assertFailed \/ m_state # "Speaking" \/ Len(m_text) = 0)
           /\ words' = Append(words, word)
           /\ wordsSincePause' = Bump(wordsSincePause)
           /\ IF index >= Len(m_text)
              THEN /\ m_timer' = FALSE
                   /\ m_state' = "Ready"
                   /\ m_currentIndex' = -1
                   /\ emitted' = <<word, StateEv("Ready")>>
              ELSE IF m_pauseRequested
              THEN /\ m_timer' = FALSE
                   /\ m_state' = "Paused"
                   /\ m_currentIndex' = index
                   /\ emitted' = <<word, StateEv("Paused")>>
              ELSE /\ m_currentIndex' = index
                   /\ emitted' = <<word>>
                   /\ UNCHANGED <<m_timer, m_state>>
    /\ m_pauseRequested' = FALSE
    /\ call' = CallOp("timerEvent")
    /\ ret' = Void
    /\ UNCHANGED <<m_text, confVars, stopped, undisturbed>>
    /\ UNCHANGED sapiVars

\* timerEvent() that looks at the pending pause before the end of the text
timerEventPauseFirst ==
    /\ m_timer
    /\ LET nextSpace == NextSpace(m_text, m_currentIndex)
           word == WordEv(m_currentIndex, nextSpace - m_currentIndex)
           index == NextIndex(m_text, m_currentIndex)
       IN  /\ assertFailed' = (assertFailed \/ m_state # "Speaking" \/ Len(m_text) = 0)
           /\ words' = Append(words, word)
           /\ wordsSincePause' = Bump(wordsSincePause)
           /\ IF m_pauseRequested
              THEN /\ m_timer' = FALSE
                   /\ m_state' = "Paused"
                   /\ m_currentIndex' = index
                   /\ emitted' = <<word, StateEv("Paused")>>
              ELSE IF index >= Len(m_text)
              THEN /\ m_timer' = FALSE
                   /\ m_state' = "Ready"
                   /\ m_currentIndex' = -1
                   /\ emitted' = <<word, StateEv("Ready")>>
              ELSE /\ m_currentIndex' = index
                   /\ emitted' = <<word>>
                   /\ UNCHANGED <<m_timer, m_state>>
    /\ m_pauseRequested' = FALSE
    /\ call' = CallOp("timerEvent")
    /\ ret' = Void
    /\ UNCHANGED <<m_text, confVars, stopped, undisturbed>>
    /\ UNCHANGED sapiVars

\* a timer event carrying m_timer's id: delivered only while m_timer runs
timerEvent ==
    /\ m_timer
    /\ LET nextSpace == NextSpace(m_text, m_currentIndex)
           word == WordEv(m_currentIndex, nextSpace - m_currentIndex)
           index == NextIndex(m_text, m_currentIndex)
       IN  /\ assertFailed' = (assertFailed \/ m_state # "Speaking" \/ Len(m_text) = 0)
           /\ words' = Append(words, word)
           /\ wordsSincePause' = Bump(wordsSincePause)
           /\ IF index >= Len(m_text)
              THEN /\ m_timer' = FALSE
                   /\ m_state' = "Ready"
                   /\ m_currentIndex' = -1
                   /\ emitted' = <<word, StateEv("Ready")>>
              ELSE IF m_pauseRequested
              THEN /\ m_timer' = FALSE
                   /\ m_state' = "Paused"
                   /\ m_currentIndex' = index
                   /\ emitted' = <<word, StateEv("Paused")>>
              ELSE /\ m_currentIndex' = index
                   /\ emitted' = <<word>>
                   /\ UNCHANGED <<m_timer, m_state>>
    /\ m_pauseRequested' = FALSE
    /\ call' = CallOp("timerEvent")
    /\ ret' = Void
    /\ UNCHANGED <<m_text, confVars, stopped, undisturbed>>
    /\ UNCHANGED sapiVars

\* a timer event of another timer of the object: passed to the base class
otherTimerEvent ==
    /\ call' = CallOp("otherTimerEvent")
    /\ ret' = Void
    /\ emitted' = <<>>
    /\ UNCHANGED <<mockVars, assertFailed, histVars>>
    /\ UNCHANGED sapiVars

(* --------------------- configuration operations ----------------------- *)

\* setRate() that stops an active timer and does not start it again
setRateStopsTimer(rate) ==
    /\ m_rate' = rate
    /\ m_timer' = FALSE
    /\ call' = CallNum("setRate", rate)
    /\ ret' = True
    /\ emitted' = <<>>
    /\ UNCHANGED <<m_state, m_text, m_currentIndex, m_pauseRequested, m_pitch,
                   m_volume, m_locale, m_voice, m_errorReason,
                   assertFailed, histVars>>
    /\ UNCHANGED sapiVars

setRate(rate) ==
    /\ m_rate' = rate
    \* an active timer is stopped and started again
    /\ m_timer' = m_timer
    /\ call' = CallNum("setRate", rate)
    /\ ret' = True
    /\ emitted' = <<>>
    /\ UNCHANGED <<m_state, m_text, m_currentIndex, m_pauseRequested, m_pitch,
                   m_volume, m_locale, m_voice, m_errorReason,
                   assertFailed, histVars>>
    /\ UNCHANGED sapiVars

setPitch(pitch) ==
    /\ m_pitch' = pitch
    /\ call' = CallNum("setPitch", pitch)
    /\ ret' = True
    /\ emitted' = <<>>
    /\ UNCHANGED <<playVars, m_rate, m_volume, m_locale, m_voice, m_errorReason,
                   assertFailed, histVars>>
    /\ UNCHANGED sapiVars

\* setLocale() that always selects the first voice of the locale
setLocaleFirstVoice(locale) ==
    /\ call' = CallLocale("setLocale", locale)
    /\ IF ~Contains(availableLocales, locale)
       THEN /\ ret' = False
            /\ UNCHANGED <<m_locale, m_voice>>
       ELSE LET voices == VoicesOf(locale)
            IN  /\ m_locale' = locale
                /\ m_voice' = IF voices = <<>> THEN NullVoice ELSE voices[1]
                /\ ret' = True
    /\ emitted' = <<>>
    /\ UNCHANGED <<playVars, m_rate, m_pitch, m_volume, m_errorReason,
                   assertFailed, histVars>>
    /\ UNCHANGED sapiVars

setLocale(locale) ==
    /\ call' = CallLocale("setLocale", locale)
    /\ IF ~Contains(availableLocales, locale)
       THEN /\ ret' = False
            /\ UNCHANGED <<m_locale, m_voice>>
       ELSE LET voices == VoicesOf(locale)
            IN  /\ m_locale' = locale
                /\ m_voice' = IF Contains(voices, m_voice) THEN m_voice
                              ELSE IF voices = <<>> THEN NullVoice
                              ELSE voices[1]
                /\ ret' = True
    /\ emitted' = <<>>
    /\ UNCHANGED <<playVars, m_rate, m_pitch, m_volume, m_errorReason,
                   assertFailed, histVars>>
    /\ UNCHANGED sapiVars

setVolume(volume) ==
    /\ call' = CallNum("setVolume", volume)
    /\ IF volume < 0 \/ volume > 10
       THEN /\ ret' = False
            /\ UNCHANGED m_volume
       ELSE /\ m_volume' = volume
            /\ ret' = True
    /\ emitted' = <<>>
    /\ UNCHANGED <<playVars, m_rate, m_pitch, m_locale, m_voice, m_errorReason,
                   assertFailed, histVars>>
    /\ UNCHANGED sapiVars

\* voiceId.left(voiceId.lastIndexOf("-")): without a dash lastIndexOf is
\* -1 and left(-1) is the whole string
LeftOfLastDash(voiceId) ==
    IF Len(voiceId) <= 1 THEN voiceId ELSE SubSeq(voiceId, 1, Len(voiceId) - 1)

setVoice(voice) ==
    /\ call' = CallVoice("setVoice", voice)
    /\ LET voiceId == voice.data
           voiceLocale == LocaleFromName(LeftOfLastDash(voiceId))
       IN  IF ~Contains(availableLocales, voiceLocale)
           THEN /\ ret' = False
                /\ UNCHANGED <<m_locale, m_voice>>
           ELSE /\ m_locale' = voiceLocale
                /\ IF ~Contains(VoicesOf(voiceLocale), voice)
                   THEN /\ ret' = False
                        /\ UNCHANGED m_voice
                   ELSE /\ m_voice' = voice
                        /\ ret' = True
    /\ emitted' = <<>>
    /\ UNCHANGED <<playVars, m_rate, m_pitch, m_volume, m_errorReason,
                   assertFailed, histVars>>
    /\ UNCHANGED sapiVars

\* the voices a client passes to setVoice(): the catalog's, a voice whose
\* token names a catalog locale but which is no catalog voice, a voice of
\* a locale outside the catalog, and a default-constructed voice
CatalogVoices ==
    {VoicesOf(availableLocales[i])[j] : i \in 1..Len(availableLocales), j \in 1..2}
VoiceInputs ==
    CatalogVoices
      \cup {createVoice("Bob", nbNO, "Male", "Adult", <<"nb", "1">>),
            createVoice("Hans", deDE, "Male", "Adult", <<"de", "1">>),
            NullVoice}

(* ============================ SAPI engine ============================= *)

\* longest queue of streams Speak() builds up, most notifications (and so
\* events) waiting to be delivered, deepest nesting of Pause() calls
MaxStreams == 2
MaxEvents == 2
MaxNest == 2

\* the texts a client passes to the SAPI engine's say()
SapiTexts == {<<>>, <<"a">>, <<"a", ",", "a">>}

\* the voice tokens of the registry (SPCAT_VOICES) in enumeration order,
\* with the attributes voiceAttributes() reads
SapiTokens ==
    <<[id |-> <<"TTS_MS_EN-US_DAVID">>, Language |-> "409", Name |-> "David",
       Gender |-> "Male", Age |-> "Adult"],
      [id |-> <<"TTS_MS_EN-US_ZIRA">>, Language |-> "409", Name |-> "Zira",
       Gender |-> "Female", Age |-> "Adult"],
      [id |-> <<"TTS_MS_DE-DE_HEDDA">>, Language |-> "407", Name |-> "Hedda",
       Gender |-> "Female", Age |-> "Senior"]>>

\* lcidToLocale(): the LCID's ISO 639 language code, made a QLocale
lcidToLocale(lcid) ==
    CASE lcid = "409" -> LocaleFromName(<<"en">>)
      [] lcid = "407" -> LocaleFromName(<<"de">>)
      [] OTHER -> cLocale

\* updateVoices(): one QVoice per token, in the order inserted in m_voices
updateVoices(tokens) ==
    [i \in 1..Len(tokens) |->
        createVoice(tokens[i].Name,
                    lcidToLocale(tokens[i].Language),
                    IF tokens[i].Gender = "Male" THEN "Male"
                    ELSE IF tokens[i].Gender = "Female" THEN "Female"
                    ELSE "Unknown",
                    IF tokens[i].Age = "Adult" THEN "Adult" ELSE "Other",
                    tokens[i].id)]

\* QMultiMap::values(key): the values of the key, the most recently
\* inserted first
RECURSIVE ValuesFor(_, _)
ValuesFor(voices, locale) ==
    IF voices = <<>> THEN <<>>
    ELSE LET last == voices[Len(voices)]
             rest == ValuesFor(SubSeq(voices, 1, Len(voices) - 1), locale)
         IN  IF last.locale = locale THEN <<last>> \o rest ELSE rest

\* the registry token with the given id, if there is one: the registry is
\* what the constructor found in it
HasToken(id) == \E i \in 1..Len(s_voices) : s_voices[i].data = id
TokenOf(id) == SapiTokens[CHOOSE i \in 1..Len(SapiTokens) : SapiTokens[i].id = id]

\* the accessors: locale(), voice(), volume() (in hundredths), isSpeaking()
Sapi_locale == IF HasToken(n_voice) THEN lcidToLocale(TokenOf(n_voice).Language) ELSE cLocale
Sapi_voice ==
    IF \E i \in 1..Len(s_voices) : s_voices[i].data = n_voice
    THEN s_voices[CHOOSE i \in 1..Len(s_voices) : s_voices[i].data = n_voice]
    ELSE NullVoice
Sapi_volume == n_volume
isSpeaking == n_streams # <<>> /\ n_started

\* length of "<pitch absmiddle=\"%1\"/>" without the %1
PrefixBase == 21
\* length of the number m_pitch * 10 as QString::arg() writes it
NumberLength(n) ==
    (IF n < 0 THEN 1 ELSE 0)
      + (IF n > -10 /\ n < 10 THEN 1 ELSE IF n > -100 /\ n < 100 THEN 2 ELSE 3)
\* the prefix stands in currentText as one item
PitchTag == "<pitch/>"

\* the native events NotifyCallback reads
StartEv == [id |-> "SPEI_START_INPUT_STREAM", lParam |-> 0, wParam |-> 0]
EndEv == [id |-> "SPEI_END_INPUT_STREAM", lParam |-> 0, wParam |-> 0]
BoundaryEv(pos, len) == [id |-> "SPEI_WORD_BOUNDARY", lParam |-> pos, wParam |-> len]
ErrorEv(reason) == [ev |-> "errorOccurred", reason |-> reason]

\* the words of a text as the synthesizer reports them: start and length
\* of each run of word characters, in order
RECURSIVE NativeWords(_, _)
NativeWords(text, from) ==
    IF from >= Len(text) THEN <<>>
    ELSE IF IsNonWord(text[from + 1]) THEN NativeWords(text, from + 1)
    ELSE LET end == NextSpace(text, from)
         IN  <<[start |-> from, length |-> end - from]>> \o NativeWords(text, end)

\* setError(): the state after it, and the signals it emits
setErrorState(reason, state) == IF reason # "NoError" THEN state ELSE "Error"
setErrorSignals(reason, state) ==
    IF reason # "NoError" THEN <<>>
    ELSE (IF state # "Error" THEN <<StateEv("Error")>> ELSE <<>>)
           \o <<ErrorEv(reason)>>

\* ISpVoice::Resume() with no Pause() outstanding does nothing
Dec(n) == IF n > 0 THEN n - 1 ELSE 0

\* resume() calls Resume()
ResumeActs == s_pauseRequested \/ s_state = "Paused"

\* Speak(NULL, SPF_PURGEBEFORESPEAK): the streams are dropped; one being
\* spoken ends, which the voice reports
PurgeEnds == n_streams # <<>> /\ n_started
PurgedEvents == IF PurgeEnds THEN Append(n_events, EndEv) ELSE n_events
PurgedPending == IF PurgeEnds THEN n_pending + 1 ELSE n_pending

(* ------------------------------- Init --------------------------------- *)

\* the members after the constructor has run with the given registry;
\* m_state starts as Error and m_errorReason as Initialization
SapiConstructed(created, tokens) ==
    /\ s_created = created
    /\ s_voices = IF created THEN updateVoices(tokens) ELSE <<>>
    /\ s_state = IF created /\ tokens # <<>> THEN "Ready" ELSE "Error"
    /\ s_errorReason = IF ~created THEN "Initialization"
                       ELSE IF tokens = <<>> THEN "Configuration"
                       ELSE "NoError"
    /\ s_pauseRequested = FALSE
    /\ s_pitch = 0
    /\ currentText = <<>>
    /\ textOffset = 0
    /\ n_volume = 100
    /\ n_rate = 0
    /\ n_voice = IF created /\ tokens # <<>> THEN tokens[1].id ELSE <<>>
    /\ n_pauseCount = 0
    /\ n_streams = <<>>
    /\ n_started = FALSE
    /\ n_word = 0
    /\ n_events = <<>>
    /\ n_pending = 0
    /\ resumeUnmatched = FALSE

\* the mock engine, beside a SAPI engine nobody uses
Init == MockInit /\ SapiConstructed(TRUE, SapiTokens)

\* the SAPI engine, beside a mock engine nobody uses: the voice was
\* created and the registry holds voices, or holds none, or the voice
\* could not be created
SapiInit ==
    /\ MockInit
    /\ \/ SapiConstructed(TRUE, SapiTokens)
       \/ SapiConstructed(TRUE, <<>>)
       \/ SapiConstructed(FALSE, <<>>)

(* ----------------------------- operations ----------------------------- *)

Sapi_say(text, speakOk) ==
    /\ s_created
    /\ call' = OnSapi(CallText("say", text))
    /\ ret' = Void
    /\ IF text = <<>>
       THEN /\ emitted' = <<>>
            /\ UNCHANGED <<sapiEngineVars, nativeVars, sapiHist>>
       ELSE LET stops == s_state # "Ready"
                resumes == stops /\ ResumeActs
                streams == IF stops THEN <<>> ELSE n_streams
                offset == PrefixBase + NumberLength(s_pitch)
            IN  /\ Len(streams) < MaxStreams
                /\ (stops /\ PurgeEnds) => n_pending < MaxEvents
                /\ s_pauseRequested' = IF stops THEN FALSE ELSE s_pauseRequested
                /\ n_pauseCount' = IF resumes THEN Dec(n_pauseCount) ELSE n_pauseCount
                /\ resumeUnmatched' = (resumeUnmatched \/ (resumes /\ n_pauseCount = 0))
                /\ n_events' = IF stops THEN PurgedEvents ELSE n_events
                /\ n_pending' = IF stops THEN PurgedPending ELSE n_pending
                /\ n_started' = IF stops THEN FALSE ELSE n_started
                /\ n_word' = IF stops THEN 0 ELSE n_word
                /\ currentText' = <<PitchTag>> \o text
                /\ textOffset' = offset
                /\ IF speakOk
                   THEN /\ n_streams' = Append(streams, [text |-> text, offset |-> offset])
                        /\ emitted' = <<>>
                        /\ UNCHANGED <<s_state, s_errorReason>>
                   ELSE /\ n_streams' = streams
                        /\ s_errorReason' = "Input"
                        /\ s_state' = setErrorState("Input", s_state)
                        /\ emitted' = setErrorSignals("Input", s_state)
                /\ UNCHANGED <<s_created, s_pitch, s_voices, n_volume, n_rate, n_voice>>
    /\ UNCHANGED mockAll

Sapi_stop ==
    /\ s_created
    /\ PurgeEnds => n_pending < MaxEvents
    /\ call' = OnSapi(CallOp("stop"))
    /\ ret' = Void
    /\ emitted' = <<>>
    /\ s_pauseRequested' = FALSE
    /\ n_pauseCount' = IF ResumeActs THEN Dec(n_pauseCount) ELSE n_pauseCount
    /\ resumeUnmatched' = (resumeUnmatched \/ (ResumeActs /\ n_pauseCount = 0))
    /\ n_streams' = <<>>
    /\ n_started' = FALSE
    /\ n_word' = 0
    /\ n_events' = PurgedEvents
    /\ n_pending' = PurgedPending
    /\ currentText' = <<>>
    /\ UNCHANGED <<s_created, s_state, s_errorReason, s_pitch, s_voices, textOffset,
                   n_volume, n_rate, n_voice>>
    /\ UNCHANGED mockAll

Sapi_pause ==
    /\ s_created
    /\ call' = OnSapi(CallOp("pause"))
    /\ ret' = Void
    /\ emitted' = <<>>
    /\ IF isSpeaking /\ ~s_pauseRequested /\ s_state # "Paused"
       THEN /\ n_pauseCount < MaxNest
            /\ s_pauseRequested' = TRUE
            /\ n_pauseCount' = n_pauseCount + 1
       ELSE UNCHANGED <<s_pauseRequested, n_pauseCount>>
    /\ UNCHANGED <<s_created, s_state, s_errorReason, s_pitch, s_voices, currentText,
                   textOffset, n_volume, n_rate, n_voice, n_streams, n_started,
                   n_word, n_events, n_pending>>
    /\ UNCHANGED sapiHist
    /\ UNCHANGED mockAll

Sapi_resume ==
    /\ s_created
    /\ call' = OnSapi(CallOp("resume"))
    /\ ret' = Void
    /\ emitted' = <<>>
    /\ IF ResumeActs
       THEN /\ s_pauseRequested' = FALSE
            /\ n_pauseCount' = Dec(n_pauseCount)
            /\ resumeUnmatched' = (resumeUnmatched \/ n_pauseCount = 0)
       ELSE UNCHANGED <<s_pauseRequested, n_pauseCount, resumeUnmatched>>
    /\ UNCHANGED <<s_created, s_state, s_errorReason, s_pitch, s_voices, currentText,
                   textOffset, n_volume, n_rate, n_voice, n_streams, n_started,
                   n_word, n_events, n_pending>>
    /\ UNCHANGED mockAll

Sapi_setPitch(pitch) ==
    /\ s_created
    /\ call' = OnSapi(CallNum("setPitch", pitch))
    /\ ret' = True
    /\ emitted' = <<>>
    /\ s_pitch' = pitch
    /\ UNCHANGED <<s_created, s_state, s_errorReason, s_pauseRequested, s_voices,
                   currentText, textOffset, nativeVars>>
    /\ UNCHANGED sapiHist
    /\ UNCHANGED mockAll

Sapi_setRate(rate) ==
    /\ s_created
    /\ call' = OnSapi(CallNum("setRate", rate))
    /\ ret' = True
    /\ emitted' = <<>>
    \* long(rate * 10) of a rate given in tenths
    /\ n_rate' = rate
    /\ UNCHANGED <<sapiEngineVars, n_volume, n_voice, n_pauseCount, n_streams,
                   n_started, n_word, n_events, n_pending>>
    /\ UNCHANGED sapiHist
    /\ UNCHANGED mockAll

\* the USHORT a double converts to (volume * 100 of a volume in tenths);
\* outside 0..65535 the conversion is undefined: it wraps or saturates
UShortOf(volume) ==
    LET x == volume * 10
    IN  IF x >= 0 /\ x <= 65535 THEN {x}
        ELSE {x % 65536, IF x < 0 THEN 0 ELSE 65535}

Sapi_setVolume(volume) ==
    /\ s_created
    /\ call' = OnSapi(CallNum("setVolume", volume))
    /\ ret' = True
    /\ emitted' = <<>>
    \* ISpVoice::SetVolume takes 0..100 and refuses anything else
    /\ \E usVolume \in UShortOf(volume) :
          n_volume' = IF usVolume <= 100 THEN usVolume ELSE n_volume
    /\ UNCHANGED <<sapiEngineVars, n_rate, n_voice, n_pauseCount, n_streams,
                   n_started, n_word, n_events, n_pending>>
    /\ UNCHANGED sapiHist
    /\ UNCHANGED mockAll

\* setVoice(): tokenOk tells whether SpCreateNewToken succeeded
Sapi_setVoice(voice, tokenOk) ==
    /\ s_created
    /\ HasToken(voice.data) => tokenOk
    /\ voice.data = <<>> => ~tokenOk
    /\ call' = OnSapi(CallVoice("setVoice", voice))
    /\ IF ~tokenOk
       THEN /\ s_errorReason' = "Configuration"
            /\ s_state' = setErrorState("Configuration", s_state)
            /\ emitted' = setErrorSignals("Configuration", s_state)
            /\ ret' = False
            /\ UNCHANGED n_voice
       ELSE /\ s_state' = "Ready"
            /\ emitted' = IF s_state # "Ready" THEN <<StateEv("Ready")>> ELSE <<>>
            \* ISpVoice::SetVoice: a token that is no voice of the registry is refused
            /\ n_voice' = IF HasToken(voice.data) THEN voice.data ELSE n_voice
            /\ ret' = True
            /\ UNCHANGED s_errorReason
    /\ UNCHANGED <<s_created, s_pauseRequested, s_pitch, s_voices, currentText,
                   textOffset, n_volume, n_rate, n_pauseCount, n_streams, n_started,
                   n_word, n_events, n_pending>>
    /\ UNCHANGED sapiHist
    /\ UNCHANGED mockAll

Sapi_setLocale(locale) ==
    /\ s_created
    /\ call' = OnSapi(CallLocale("setLocale", locale))
    /\ LET voicesForLocale == ValuesFor(s_voices, locale)
       IN  IF voicesForLocale = <<>>
           THEN /\ s_errorReason' = "Configuration"
                /\ s_state' = setErrorState("Configuration", s_state)
                /\ emitted' = setErrorSignals("Configuration", s_state)
                /\ ret' = False
                /\ UNCHANGED n_voice
           ELSE \* setVoice(voicesForLocale[0]), the token of a catalog voice
                /\ s_state' = "Ready"
                /\ emitted' = IF s_state # "Ready" THEN <<StateEv("Ready")>> ELSE <<>>
                /\ n_voice' = voicesForLocale[1].data
                /\ ret' = True
                /\ UNCHANGED s_errorReason
    /\ UNCHANGED <<s_created, s_pauseRequested, s_pitch, s_voices, currentText,
                   textOffset, n_volume, n_rate, n_pauseCount, n_streams, n_started,
                   n_word, n_events, n_pending>>
    /\ UNCHANGED sapiHist
    /\ UNCHANGED mockAll

\* the switch of NotifyCallback over the fetched events: the state it
\* leaves and the sayingWord signals it emits
RECURSIVE Drain(_, _, _)
Drain(evs, state, offset) ==
    IF evs = <<>> THEN [state |-> state, said |-> <<>>]
    ELSE LET e == Head(evs)
             state1 == IF e.id = "SPEI_START_INPUT_STREAM" THEN "Speaking"
                       ELSE IF e.id = "SPEI_END_INPUT_STREAM" THEN "Ready"
                       ELSE state
             said1 == IF e.id = "SPEI_WORD_BOUNDARY"
                      THEN <<WordEv(e.lParam - offset, e.wParam)>> ELSE <<>>
             rest == Drain(Tail(evs), state1, offset)
         IN  [state |-> rest.state, said |-> said1 \o rest.said]

\* the value of m_state at each sayingWord the switch of NotifyCallback
\* emits, in order
RECURSIVE StatesWhenSaid(_, _)
StatesWhenSaid(evs, state) ==
    IF evs = <<>> THEN <<>>
    ELSE LET e == Head(evs)
             state1 == IF e.id = "SPEI_START_INPUT_STREAM" THEN "Speaking"
                       ELSE IF e.id = "SPEI_END_INPUT_STREAM" THEN "Ready"
                       ELSE state
         IN  (IF e.id = "SPEI_WORD_BOUNDARY" THEN <<state>> ELSE <<>>)
               \o StatesWhenSaid(Tail(evs), state1)

NotifyCallback ==
    /\ s_created
    /\ n_pending > 0
    /\ LET drained == Drain(n_events, s_state, textOffset)
           state == IF s_pauseRequested THEN "Paused"
                    ELSE IF drained.state = "Paused" /\ isSpeaking THEN "Speaking"
                    ELSE drained.state
       IN  /\ s_state' = state
           /\ emitted' = drained.said
                           \o (IF state # s_state THEN <<StateEv(state)>> ELSE <<>>)
    /\ n_events' = <<>>
    /\ n_pending' = n_pending - 1
    /\ call' = OnSapi(CallOp("NotifyCallback"))
    /\ ret' = Void
    /\ UNCHANGED <<s_created, s_errorReason, s_pauseRequested, s_pitch, s_voices,
                   currentText, textOffset, n_volume, n_rate, n_voice, n_pauseCount,
                   n_streams, n_started, n_word>>
    /\ UNCHANGED sapiHist
    /\ UNCHANGED mockAll

(* ------------------------- the voice at work -------------------------- *)

NativeStep(events) ==
    /\ s_created
    /\ n_pending < MaxEvents
    /\ n_events' = n_events \o events
    /\ n_pending' = n_pending + 1
    /\ call' = OnSapi(CallOp("native"))
    /\ ret' = Void
    /\ emitted' = <<>>
    /\ UNCHANGED <<sapiEngineVars, n_volume, n_rate, n_voice, n_pauseCount>>
    /\ UNCHANGED sapiHist
    /\ UNCHANGED mockAll

\* the voice takes up the first stream queued
nativeStart ==
    /\ n_streams # <<>>
    /\ ~n_started
    /\ n_started' = TRUE
    /\ n_word' = 0
    /\ UNCHANGED n_streams
    /\ NativeStep(<<StartEv>>)

\* the voice, not paused, comes to the next word of the stream
nativeWord ==
    /\ n_streams # <<>>
    /\ n_started
    /\ n_pauseCount = 0
    /\ LET stream == Head(n_streams)
           wordsOf == NativeWords(stream.text, 0)
       IN  /\ n_word < Len(wordsOf)
           /\ NativeStep(<<BoundaryEv(stream.offset + wordsOf[n_word + 1].start,
                                      wordsOf[n_word + 1].length)>>)
    /\ n_word' = n_word + 1
    /\ UNCHANGED <<n_streams, n_started>>

\* the voice comes to the end of the stream; a voice told to pause does
\* so at a break between words (the comment in NotifyCallback), and past
\* the last word of the stream there is none, so it may as well run on to
\* the end
nativeEnd ==
    /\ n_streams # <<>>
    /\ n_started
    /\ n_word = Len(NativeWords(Head(n_streams).text, 0))
    /\ n_streams' = Tail(n_streams)
    /\ n_started' = FALSE
    /\ n_word' = 0
    /\ NativeStep(<<EndEv>>)

\* the voices a client passes to the SAPI engine's setVoice(): two of the
\* catalog, one with an unknown token, and a default-constructed voice
SapiVoiceInputs ==
    {updateVoices(SapiTokens)[2], updateVoices(SapiTokens)[3],
     createVoice("Bob", enGB, "Male", "Adult", <<"en", "GB", "1">>),
     NullVoice}

\* one step of the mock engine: a call of the client or a timer event, the
\* client drawing its arguments from the given sets
MockNext(texts, rates, pitches, locales, volumes, voices) ==
    \/ \E text \in texts : say(text)
    \/ stop
    \/ pause
    \/ resume
    \/ timerEvent
    \/ otherTimerEvent
    \/ \E rate \in rates : setRate(rate)
    \/ \E pitch \in pitches : setPitch(pitch)
    \/ \E locale \in locales : setLocale(locale)
    \/ \E volume \in volumes : setVolume(volume)
    \/ \E voice \in voices : setVoice(voice)

\* a client that speaks every text and configures a little
Next ==
    MockNext(Texts, {5}, {5}, {nbNO}, {10},
             {createVoice("Anne", enGB, "Female", "Adult", <<"en", "GB", "2">>)})

Spec == Init /\ [][Next]_vars

\* a client that configures with every argument and speaks one text
NextConf ==
    MockNext({<<"a", ",", "a">>}, RateInputs, PitchInputs, LocaleInputs,
             VolumeInputs, VoiceInputs)

SpecConf == Init /\ [][NextConf]_vars

\* the mock engine with a client that never says an empty text
NonEmptyTexts == Texts \ {<<>>}
NextNonEmpty ==
    MockNext(NonEmptyTexts, {5}, {5}, {nbNO}, {10},
             {createVoice("Anne", enGB, "Female", "Adult", <<"en", "GB", "2">>)})

SpecNonEmpty == Init /\ [][NextNonEmpty]_vars

\* one step of the SAPI engine: a call of the client with inputs of the
\* given sets, a notification, or the voice getting on with its streams
SapiNext(texts, speakOks, pitches, rates, volumes, voices, locales) ==
    \/ \E text \in texts, speakOk \in speakOks : Sapi_say(text, speakOk)
    \/ Sapi_stop
    \/ Sapi_pause
    \/ Sapi_resume
    \/ \E pitch \in pitches : Sapi_setPitch(pitch)
    \/ \E rate \in rates : Sapi_setRate(rate)
    \/ \E volume \in volumes : Sapi_setVolume(volume)
    \/ \E voice \in voices, tokenOk \in BOOLEAN : Sapi_setVoice(voice, tokenOk)
    \/ \E locale \in locales : Sapi_setLocale(locale)
    \/ NotifyCallback
    \/ nativeStart
    \/ nativeWord
    \/ nativeEnd

\* the SAPI engine speaking: every text, one value of each setting
NextSapi ==
    SapiNext(SapiTexts, BOOLEAN, {10}, {0}, {10}, {updateVoices(SapiTokens)[3]}, {deDE})

SpecSapi == SapiInit /\ [][NextSapi]_vars

\* the SAPI engine being configured: every value of each setting, one text
NextSapiConf ==
    SapiNext({<<"a">>}, {TRUE}, PitchInputs, RateInputs, VolumeInputs, SapiVoiceInputs,
             LocaleInputs)

SpecSapiConf == SapiInit /\ [][NextSapiConf]_vars

(* ----------------------- claims: mock playback ------------------------ *)

\* the utterance has been spoken to its end and its text is still held
Completed ==
    /\ m_state = "Ready"
    /\ m_currentIndex = -1
    /\ m_text # <<>>
    /\ words # <<>>

NoWordIn(signals) == \A i \in 1..Len(signals) : signals[i].ev # "sayingWord"

\* the maximal runs of word characters of text, by their 0-based starts
WordRunStarts(text) ==
    {i \in 0..(Len(text) - 1) :
        /\ ~IsNonWord(text[i + 1])
        /\ (i = 0 \/ IsNonWord(text[i]))}

\* the sayingWord signals of an utterance of text that runs from index
\* from to the end with no call in between
RECURSIVE WordsFrom(_, _)
WordsFrom(text, from) ==
    LET word == WordEv(from, NextSpace(text, from) - from)
        index == NextIndex(text, from)
    IN  IF index >= Len(text) \/ index <= from THEN <<word>>
        ELSE <<word>> \o WordsFrom(text, index)

\* C1: say(T) of a non-empty T in Ready sets Speaking; every timer tick
\* moves the cursor strictly forward (or ends the utterance), so an
\* utterance takes at most length(T) ticks; and with no stop/pause/say in
\* between, the utterance has ended in Ready or its timer still runs, so
\* that the timer's firing brings the state back to Ready.
C1_SayReturnsToReady ==
    /\ [][(call'.op = "say" /\ call'.text # <<>> /\ m_state = "Ready")
            => m_state' = "Speaking"]_vars
    /\ [][(call'.op = "timerEvent" /\ m_text # <<>>)
            => (m_currentIndex' > m_currentIndex \/ m_state' = "Ready")]_vars
    /\ [](m_text # <<>> => Len(words) <= Len(m_text))
    /\ []((undisturbed /\ m_text # <<>>) => (m_state = "Ready" \/ m_timer))

\* C2: for a non-empty text spoken to completion there is exactly one
\* sayingWord per maximal run of word characters, and every sayingWord
\* has length >= 1 and spans no separator.
C2_OneWordPerRun ==
    (m_text # <<>>) =>
        /\ \A i \in 1..Len(words) :
              /\ words[i].length >= 1
              /\ \A k \in words[i].start..(words[i].start + words[i].length - 1) :
                    ~IsNonWord(m_text[k + 1])
        /\ Completed => Len(words) = Cardinality(WordRunStarts(m_text))

\* C3: stop() returns with the state Ready, having emitted
\* stateChanged(Ready) exactly when the state was Speaking or Paused, and
\* no sayingWord is emitted from then until the next say().
C3_StopYieldsReadyAndSilence ==
    /\ [][call'.op = "stop" =>
            /\ m_state' = "Ready"
            /\ emitted' = IF m_state \in {"Speaking", "Paused"}
                          THEN <<StateEv("Ready")>> ELSE <<>>]_vars
    /\ [][stopped' => NoWordIn(emitted')]_vars

C3_Witness ==
    /\ call.op = "stop"
    /\ emitted = <<StateEv("Ready")>>
    /\ words # <<>>
    /\ stopped

\* C4: after stop() the text is empty, the cursor is -1, the timer is
\* inactive and the pending-pause flag is false.
C4_StopClearsSession ==
    call.op = "stop" =>
        /\ m_text = <<>>
        /\ m_currentIndex = -1
        /\ ~m_timer
        /\ ~m_pauseRequested

\* C5: pause() in Speaking leaves the state Speaking and emits nothing;
\* the state becomes Paused only in a timer tick, after that tick's
\* sayingWord, which is the one sayingWord since the pause(); and a tick
\* with a pause pending whose word does not end the text does pause.
C5_PauseDeferredToWordEnd ==
    /\ [][(call'.op = "pause" /\ m_state = "Speaking")
            => (m_state' = "Speaking" /\ emitted' = <<>>)]_vars
    /\ [][(m_state' = "Paused" /\ m_state # "Paused") =>
            /\ call'.op = "timerEvent"
            /\ Len(emitted') = 2
            /\ emitted'[1].ev = "sayingWord"
            /\ emitted'[2] = StateEv("Paused")
            /\ wordsSincePause' = 1]_vars
    /\ [][(call'.op = "timerEvent" /\ m_pauseRequested
             /\ NextIndex(m_text, m_currentIndex) < Len(m_text))
            => m_state' = "Paused"]_vars

C5_Witness ==
    /\ call.op = "timerEvent"
    /\ m_state = "Paused"
    /\ wordsSincePause = 1
    /\ ~stopped

\* C6: pause() outside Speaking and resume() outside Paused change
\* nothing of the engine and emit nothing.
C6_PauseResumeNoOps ==
    [][((call'.op = "pause" /\ m_state \in {"Ready", "Paused", "Error"})
          \/ (call'.op = "resume" /\ m_state # "Paused"))
         => (UNCHANGED mockVars /\ emitted' = <<>>)]_vars

C6_Witness ==
    /\ call.op = "pause"
    /\ m_state = "Paused"

\* C7: resume() in Paused sets Speaking and keeps the cursor; nothing is
\* said while Paused; and an utterance that ran to completion has emitted
\* the sayingWord sequence of an uninterrupted run, whatever pause() and
\* resume() calls came in between.
C7_ResumeContinuesFromCursor ==
    /\ [][(call'.op = "resume" /\ m_state = "Paused")
            => (m_state' = "Speaking" /\ m_currentIndex' = m_currentIndex)]_vars
    /\ [][m_state = "Paused" => NoWordIn(emitted')]_vars
    /\ [](Completed => words = WordsFrom(m_text, 0))

\* resume() has just taken a paused utterance up again after its first word
C7_Witness ==
    /\ call.op = "resume"
    /\ emitted = <<StateEv("Speaking")>>
    /\ m_state = "Speaking"
    /\ Len(words) = 1
    /\ m_currentIndex = 2

(* ----------------------- claims: configuration ------------------------ *)

\* the volumes (in tenths) inside [0, 1]
InRange(volume) == volume >= 0 /\ volume <= 10

\* C8: on both engines setVolume(v) with v outside [0, 1] returns false
\* and leaves volume() and all other state of the engine unchanged; with
\* v inside [0, 1] it returns true and volume() is v afterwards.
C8_SetVolumeChecksRange ==
    [][call'.op = "setVolume" =>
          IF call'.engine = "mock"
          THEN IF InRange(call'.num)
               THEN ret' = True /\ m_volume' = call'.num
               ELSE ret' = False /\ UNCHANGED mockVars
          ELSE IF InRange(call'.num)
               THEN ret' = True /\ Sapi_volume' = 10 * call'.num
               ELSE ret' = False /\ UNCHANGED sapiVars]_vars

\* the locale setVoice() derives from the token of a voice
DerivedLocale(voice) == LocaleFromName(LeftOfLastDash(voice.data))

\* C9: the mock engine's setVoice(v) returns true only if the locale
\* derived from v's token is an available locale and v is one of the
\* voices of that locale; in every other case it returns false and
\* state(), voice() and locale() are what they were before the call.
C9_SetVoiceAllOrNothing ==
    [][(call'.op = "setVoice" /\ call'.engine = "mock") =>
          LET accepted == /\ Contains(availableLocales, DerivedLocale(call'.voice))
                          /\ Contains(VoicesOf(DerivedLocale(call'.voice)), call'.voice)
          IN  /\ ret' = True => accepted
              /\ ~accepted => /\ ret' = False
                              /\ UNCHANGED <<m_state, m_voice, m_locale>>]_vars

\* C10: on both engines setLocale(l) with l not an available locale
\* returns false, makes errorReason() Configuration and leaves state(),
\* locale() and voice() unchanged.
C10_UnknownLocaleIsConfigurationError ==
    [][call'.op = "setLocale" =>
          IF call'.engine = "mock"
          THEN ~Contains(availableLocales, call'.locale) =>
                  /\ ret' = False
                  /\ m_errorReason' = "Configuration"
                  /\ UNCHANGED <<m_state, m_locale, m_voice>>
          ELSE ValuesFor(s_voices, call'.locale) = <<>> =>
                  /\ ret' = False
                  /\ s_errorReason' = "Configuration"
                  /\ s_state' = s_state
                  /\ Sapi_locale' = Sapi_locale
                  /\ Sapi_voice' = Sapi_voice]_vars

\* C11: the mock engine's setLocale(l) with l an available locale returns
\* true and makes locale() l; voice() stays if the selected voice is a
\* voice of l and becomes the first voice of l otherwise, so that voice()
\* is one of availableVoices() afterwards.
C11_SetLocaleSelectsVoice ==
    [][(call'.op = "setLocale" /\ call'.engine = "mock"
          /\ Contains(availableLocales, call'.locale)) =>
          /\ ret' = True
          /\ m_locale' = call'.locale
          /\ m_voice' = IF Contains(VoicesOf(call'.locale), m_voice) THEN m_voice
                        ELSE VoicesOf(call'.locale)[1]
          /\ Contains(VoicesOf(m_locale'), m_voice')]_vars

\* setLocale(l) was accepted and kept the selected voice, the second of l
C11_Witness ==
    /\ call.op = "setLocale"
    /\ call.engine = "mock"
    /\ ret = True
    /\ m_locale = call.locale
    /\ m_voice = VoicesOf(call.locale)[2]

(* ------------------------- claims: sessions --------------------------- *)

\* C12: on both engines say("") is a no-op: state, text, cursor, timer
\* and error record are unchanged, the voice is not called and nothing is
\* emitted.
C12_SayEmptyIsNoOp ==
    [][(call'.op = "say" /\ call'.text = <<>>) =>
          /\ emitted' = <<>>
          /\ IF call'.engine = "mock"
             THEN UNCHANGED <<m_state, m_text, m_currentIndex, m_timer, m_errorReason>>
             ELSE UNCHANGED sapiVars]_vars

\* C13: the mock engine's say(T), also when called while Speaking or
\* Paused, starts a fresh session: text T, cursor 0, state Speaking with
\* the timer running and no pause pending, so that the utterance is paused
\* only by a pause() made after this say(); every sayingWord signal after
\* it lies within T.
C13_SayStartsFreshSession ==
    /\ [][(call'.op = "say" /\ call'.engine = "mock" /\ call'.text # <<>>) =>
             /\ m_text' = call'.text
             /\ m_currentIndex' = 0
             /\ m_state' = "Speaking"
             /\ m_timer'
             /\ ~m_pauseRequested'
             /\ words' = <<>>]_vars
    /\ [](~stopped =>
             \A i \in 1..Len(words) :
                 words[i].start >= 0 /\ words[i].start + words[i].length <= Len(m_text))

(* ------------------------- claims: word step -------------------------- *)

\* the start of the first run of non-word characters at or after c, or
\* the length of the text if there is none
RECURSIVE RunStart(_, _)
RunStart(text, c) ==
    IF c >= Len(text) THEN Len(text)
    ELSE IF IsNonWord(text[c + 1]) THEN c
    ELSE RunStart(text, c + 1)

\* the length of the run of non-word characters that starts at r
RECURSIVE RunLength(_, _)
RunLength(text, r) ==
    IF r >= Len(text) THEN 0
    ELSE IF IsNonWord(text[r + 1]) THEN 1 + RunLength(text, r + 1)
    ELSE 0

\* "Hello, world!" with each letter written "a" and each of ',', ' ' and
\* '!' written ",": the word step looks at the class of a character only
HelloWorld ==
    <<"a", "a", "a", "a", "a", ",", ",", "a", "a", "a", "a", "a", ",">>

\* C14: a timer tick of the mock engine with cursor c emits
\* sayingWord(c, runStart - c), runStart being the start of the first run
\* of non-word characters at or after c (the length of the text if there
\* is none), and moves the cursor to runStart + runLength, at which the
\* utterance is over if that is the end of the text; "Hello, world!"
\* yields exactly (0,5) and (7,5).
C14_WordStep ==
    /\ [][(call'.op = "timerEvent" /\ call'.engine = "mock") =>
             LET c == m_currentIndex
                 runStart == RunStart(m_text, c)
                 next == runStart + RunLength(m_text, runStart)
             IN  /\ emitted' # <<>>
                 /\ emitted'[1] = WordEv(c, runStart - c)
                 /\ NoWordIn(Tail(emitted'))
                 /\ IF next < Len(m_text)
                    THEN m_currentIndex' = next
                    ELSE m_state' = "Ready"]_vars
    /\ [](WordsFrom(HelloWorld, 0) = <<WordEv(0, 5), WordEv(7, 5)>>)

\* a tick at cursor 0 of "a,a" has emitted (0,1) and moved the cursor
\* past the separator
C14_Witness ==
    /\ call.op = "timerEvent"
    /\ call.engine = "mock"
    /\ m_text = <<"a", ",", "a">>
    /\ emitted = <<WordEv(0, 1)>>
    /\ m_currentIndex = 2

(* ----------------------- claims: SAPI playback ------------------------ *)

\* C15: the SAPI engine emits sayingWord only while state() is Speaking,
\* never while it is Paused or Ready, and emits none for an utterance
\* that stop() was called for: none while currentText, which stop() clears
\* and the next say() sets, is empty.
C15_WordsOnlyWhileSpeaking ==
    /\ [][(call'.engine = "sapi" /\ call'.op # "NotifyCallback") =>
             NoWordIn(emitted')]_vars
    /\ [][(call'.op = "NotifyCallback") =>
             LET states == StatesWhenSaid(n_events, s_state)
             IN  \A i \in 1..Len(states) : states[i] = "Speaking"]_vars
    /\ [][(call'.op = "NotifyCallback" /\ currentText = <<>>) =>
             NoWordIn(emitted')]_vars

(* ---------------------- claims: notifications ------------------------- *)

\* the stateChanged signals among the given signals, in order
StateSignals(signals) == SelectSeq(signals, LAMBDA e : e.ev = "stateChanged")

\* the states the fetched stream events stand for, in order
RECURSIVE StreamStates(_)
StreamStates(evs) ==
    IF evs = <<>> THEN <<>>
    ELSE (IF Head(evs).id = "SPEI_START_INPUT_STREAM" THEN <<"Speaking">>
          ELSE IF Head(evs).id = "SPEI_END_INPUT_STREAM" THEN <<"Ready">>
          ELSE <<>>) \o StreamStates(Tail(evs))

\* one stateChanged for each change in a run of states that begins in from
RECURSIVE Changes(_, _)
Changes(states, from) ==
    IF states = <<>> THEN <<>>
    ELSE IF Head(states) = from THEN Changes(Tail(states), from)
    ELSE <<StateEv(Head(states))>> \o Changes(Tail(states), Head(states))

\* the changes of state the given signals report to a client that saw
\* the state from: a stateChanged that repeats the state reports none
Reported(signals, from) ==
    LET changed == StateSignals(signals)
    IN  Changes([i \in 1..Len(changed) |-> changed[i].state], from)

\* C16: on both engines every change of state() is reported by a
\* stateChanged signal that carries the new state, in the order of the
\* changes; a NotifyCallback of the SAPI engine reports each start and
\* each end of a stream it fetches, also when it fetches several.
C16_EveryStateChangeNotified ==
    /\ [][call'.engine = "mock" =>
             Reported(emitted', m_state) = Changes(<<m_state'>>, m_state)]_vars
    /\ [][(call'.engine = "sapi" /\ call'.op # "NotifyCallback") =>
             Reported(emitted', s_state) = Changes(<<s_state'>>, s_state)]_vars
    /\ [][call'.op = "NotifyCallback" =>
             Reported(emitted', s_state)
               = Changes(StreamStates(n_events) \o <<s_state'>>, s_state)]_vars

\* C16 for the mock engine alone
C16_MockStateChangesNotified ==
    [][call'.engine = "mock" =>
          Reported(emitted', m_state) = Changes(<<m_state'>>, m_state)]_vars

(* ------------------------- claims: SAPI errors ------------------------ *)

\* a say() step of the SAPI engine whose Speak() failed: the text was not
\* empty and no stream was queued for it
SpeakFailed ==
    /\ call'.op = "say"
    /\ call'.engine = "sapi"
    /\ call'.text # <<>>
    /\ n_streams' = IF s_state # "Ready" THEN <<>> ELSE n_streams

\* C17: when the SAPI engine reports a failure through setError with a
\* reason other than NoError (here: Speak() failing in say()), the error
\* record holds the reason, state() becomes Error, and stateChanged(Error),
\* if the state changed, and errorOccurred(reason) are emitted; an engine
\* constructed with an error is in state Error.
C17_ErrorsAreSurfaced ==
    /\ [][SpeakFailed =>
             /\ s_errorReason' = "Input"
             /\ s_state' = "Error"
             /\ emitted' = (IF s_state # "Error" THEN <<StateEv("Error")>> ELSE <<>>)
                             \o <<ErrorEv("Input")>>]_vars
    /\ []((call.op = "ctor" /\ s_errorReason # "NoError") => s_state = "Error")

\* a step of the SAPI engine that is a successful setVoice() or setLocale()
Reconfigured ==
    /\ call'.engine = "sapi"
    /\ call'.op \in {"setVoice", "setLocale"}
    /\ ret' = True

\* C18: with an error recorded, a successful setVoice() or setLocale() of
\* the SAPI engine leaves state() Ready and errorReason() NoError; any
\* other step leaves an error recorded and the state Error if it was.
C18_ReconfigurationClearsError ==
    /\ [][(Reconfigured /\ s_errorReason # "NoError") =>
             (s_state' = "Ready" /\ s_errorReason' = "NoError")]_vars
    /\ [][(call'.engine = "sapi" /\ ~Reconfigured /\ s_errorReason # "NoError") =>
             /\ s_errorReason' # "NoError"
             /\ s_state = "Error" => s_state' = "Error"]_vars

\* C19: over any sequence of pause(), resume(), stop(), say() and
\* NotifyCallback the SAPI engine keeps Pause() and Resume() balanced:
\* Pause() is never called while a Pause() is outstanding, Resume() never
\* while none is, so the count of outstanding Pause() calls is 0 or 1.
C19_PauseResumeBalanced ==
    /\ [](n_pauseCount \in {0, 1})
    /\ [](~resumeUnmatched)

(* --------------------------- claims: rate ----------------------------- *)

\* C20: the mock engine's setRate(r) returns true and changes the rate
\* only: state, text, cursor and pending-pause flag are unchanged and the
\* timer is active afterwards iff it was before; so an utterance during
\* which the rate is set emits the words of its text, none skipped and
\* none repeated.
C20_SetRateKeepsSession ==
    /\ [][(call'.op = "setRate" /\ call'.engine = "mock") =>
             /\ ret' = True
             /\ m_rate' = call'.num
             /\ emitted' = <<>>
             /\ m_timer' = m_timer
             /\ UNCHANGED <<m_state, m_text, m_currentIndex, m_pauseRequested>>
             /\ UNCHANGED <<m_pitch, m_volume, m_locale, m_voice, m_errorReason>>
             /\ UNCHANGED words]_vars
    /\ [][(call.op = "setRate" /\ call.engine = "mock" /\ m_state = "Speaking"
             /\ call'.op = "timerEvent") =>
             emitted'[1] = WordEv(m_currentIndex,
                                  RunStart(m_text, m_currentIndex) - m_currentIndex)]_vars

\* the rate was set between the two words of "a,a"
C20_Witness ==
    /\ call.op = "setRate"
    /\ call.engine = "mock"
    /\ m_rate = 5
    /\ m_state = "Speaking"
    /\ m_timer
    /\ m_text = <<"a", ",", "a">>
    /\ m_currentIndex = 2
    /\ words = <<WordEv(0, 1)>>

(* ---------------------- claims: end of utterance ---------------------- *)

\* the last of the states the fetched stream events stand for, or "none"
LastStreamState(evs) ==
    LET states == StreamStates(evs)
    IN  IF states = <<>> THEN "none" ELSE states[Len(states)]

\* the voice has nothing more to speak or to report
BackendFinished == n_streams = <<>> /\ n_events = <<>> /\ n_pending = 0

\* C21: in the SAPI engine a start of stream maps to Speaking and an end
\* of stream to Ready: after a NotifyCallback whose last fetched stream
\* event is the end of a stream state() is Ready, and the engine is not
\* left in Paused or Speaking once the voice has finished.
C21_EndOfStreamIsReady ==
    /\ [][(call'.op = "NotifyCallback"
             /\ LastStreamState(n_events) = "Ready") => s_state' = "Ready"]_vars
    /\ [](BackendFinished => s_state \notin {"Speaking", "Paused"})

(* ----------------------- claims: mock invariants ---------------------- *)

\* C22: a timer tick of the mock engine with a pause pending and the last
\* word of the text at the cursor moves the state to Ready, not Paused,
\* resets the cursor to -1 and clears the pending pause; the pending-pause
\* flag is false after every timer tick.
C22_PauseAtLastWordEndsInReady ==
    /\ [][(call'.op = "timerEvent" /\ call'.engine = "mock") =>
             ~m_pauseRequested']_vars
    /\ [][(call'.op = "timerEvent" /\ call'.engine = "mock" /\ m_pauseRequested
             /\ LET runStart == RunStart(m_text, m_currentIndex)
                IN  runStart + RunLength(m_text, runStart) >= Len(m_text)) =>
             /\ m_state' = "Ready"
             /\ m_currentIndex' = -1
             /\ ~m_timer'
             /\ emitted'[Len(emitted')] = StateEv("Ready")]_vars

\* the tick after a pause() made during the last word of "a,a"
C22_Witness ==
    /\ call.op = "timerEvent"
    /\ call.engine = "mock"
    /\ m_text = <<"a", ",", "a">>
    /\ words = <<WordEv(0, 1), WordEv(2, 1)>>
    /\ wordsSincePause = 1
    /\ m_state = "Ready"
    /\ m_currentIndex = -1
    /\ ~m_pauseRequested

\* C23: after any sequence of setLocale() and setVoice() calls of the mock
\* engine, accepted or rejected, voice() is one of availableVoices() and
\* the locale of voice() is locale().
C23_VoiceBelongsToLocale ==
    /\ Contains(availableVoices, m_voice)
    /\ m_voice.locale = m_locale

\* C24: with say() called with non-empty texts only, the mock engine's
\* timer is active iff the state is Speaking, the cursor is within the
\* text whenever the state is Speaking or Paused, and the assertions of
\* timerEvent() and stop() never fail.
C24_TimerIffSpeaking ==
    /\ m_timer <=> (m_state = "Speaking")
    /\ m_state \in {"Speaking", "Paused"} =>
          (m_currentIndex >= 0 /\ m_currentIndex < Len(m_text))
    /\ ~assertFailed

\* a tick has paused the utterance: the timer is stopped, the cursor is
\* at the second word of "a,a"
C24_Witness ==
    /\ call.op = "timerEvent"
    /\ m_state = "Paused"
    /\ ~m_timer
    /\ m_text = <<"a", ",", "a">>
    /\ m_currentIndex = 2
    /\ ~assertFailed

\* C25: the mock engine emits stateChanged only when the state changes:
\* no stateChanged repeats the state the client saw last, for any sequence
\* of say, stop, pause, resume and ticks, say() while Speaking included.
C25_StateChangedOnlyOnChange ==
    [][call'.engine = "mock" =>
          /\ Len(Reported(emitted', m_state)) = Len(StateSignals(emitted'))
          /\ StateSignals(emitted') # <<>> => m_state' # m_state]_vars

====
